---- MODULE Spec2Model ----
(***************************************************************************)
(* Model of cptdl/utilities.py: the credential file ~/.pycpt_dlauth, the   *)
(* interactive logins, the streaming downloader and the download           *)
(* orchestrator.                                                           *)
(*                                                                         *)
(* File contents, response bodies and chunks are sequences of tokens; a    *)
(* token stands for a run of bytes.  Every call is one atomic action: the  *)
(* module is single threaded and synchronous.  Each call leaves in `last`  *)
(* a record of itself: its arguments, what the environment answered, the   *)
(* state before it, the ordered log of its side effects, the lines it      *)
(* printed, the exception that escaped and the value returned.  The caller *)
(* is either idle (about to make a call) or holds the record of the call   *)
(* that has just returned; Return drops the record.                        *)
(***************************************************************************)
EXTENDS Integers, Sequences, FiniteSets, TLC

VARIABLES fs, dirs, last

vars == <<fs, dirs, last>>

(* ------------------------------ bounds -------------------------------- *)

\* longest chunk sequence with freely chosen chunks
MaxChunks == 2

\* longest chunk sequence of identical chunks (drives the progress bar past
\* its wrap-around)
MaxLong == 26

(* ---------------------------- constants ------------------------------- *)

\* width of the progress bar and period of the fill counter
BarWidth == 25

\* sys.getsizeof of an empty bytes object
BytesOverhead == 33

\* divisor of the KB display
KBDiv == 1000

(* ------------------------------ tokens -------------------------------- *)

\* a byte run that is not valid UTF-8
BadByte == "\\xff"

\* the literal text 'html'
Html == "html"

\* the confirmation phrase of the login page (two spaces intended)
Phrase == "This dataset has  bytes"

\* tokens that stand for a quoted JSON string
JsonStrings == {"\"key\"", "\"token\"", "\"k1\"", "\"k2\""}

None == "None"

\* the Python value of a quoted JSON string token
JsonValue(tok) ==
  CASE tok = "\"key\"" -> "key"
    [] tok = "\"token\"" -> "token"
    [] tok = "\"k1\"" -> "k1"
    [] tok = "\"k2\"" -> "k2"
    [] OTHER -> None

(* ------------------------------ paths --------------------------------- *)

CredPath == "~/.pycpt_dlauth"

DestPath == "out/data.tsv"

Paths == {CredPath, DestPath}

Parent(p) == IF p = CredPath THEN "~" ELSE "out"

File(e, d) == [exists |-> e, data |-> d]

Absent == File(FALSE, <<>>)

IsFile(f, p) == f[p].exists

(* --------------------------- byte helpers ----------------------------- *)

Rep(c, n) == IF n <= 0 THEN <<>> ELSE [i \in 1..n |-> c]

Contains(data, tok) == \E i \in 1..Len(data) : data[i] = tok

\* bytes.decode('utf-8') / text-mode read succeeds
Decodable(data) == ~Contains(data, BadByte)

\* json.loads over the token grammar: an object with one pair, or a string
JsonLoads(data) ==
  IF Decodable(data) /\ Len(data) = 5 /\ data[1] = "{" /\ data[3] = ":"
       /\ data[5] = "}" /\ data[2] \in JsonStrings /\ data[4] \in JsonStrings
  THEN [ok |-> TRUE, isDict |-> TRUE, field |-> JsonValue(data[2]),
        value |-> JsonValue(data[4])]
  ELSE IF Decodable(data) /\ Len(data) = 1 /\ data[1] \in JsonStrings
  THEN [ok |-> TRUE, isDict |-> FALSE, field |-> "", value |-> JsonValue(data[1])]
  ELSE [ok |-> FALSE, isDict |-> FALSE, field |-> "", value |-> ""]

(* --------------------------- printed lines ---------------------------- *)

Msg(t) == [kind |-> "msg", text |-> t, bar |-> <<>>, kb |-> 0]

Progress(bar, kb) == [kind |-> "progress", text |-> "DOWNLOADING", bar |-> bar, kb |-> kb]

NeedSetupMsg == "You need to set up an IRIDLAUTH!"

LooksHtmlMsg == "Your existing ~/.pycpt_dlauth file looked like an 'incorrect username/password' message!"

UnreadableMsg == "Unable to read text from ~/.pycpt_dlauth"

IncorrectUserMsg == "Incorrect user or password"

AgreedMsg == "You have recorded your agreement"

IncorrectSetupMsg == "Incorrect Username or Password"

AlreadyMsg == "You already have an IRIDLAUTH (~/.pycpt_dlauth)!"

(* ----------------------------- exceptions ----------------------------- *)

Exc(t, m) == [type |-> t, msg |-> m]

NoExc == Exc("", <<>>)

MissingFiletypeMsg == <<"Required keyword argument missing:", "'filetype'">>

InvalidFormatMsg == <<"invalid download format:">>

NoCookieMsg == <<"You need to use cpttools.setup_dlauth('your_email') to get a cookie">>

TemplateMsg == <<"You must pass all the required arguments for this URL">>

BrokenMsg == <<"Please check what's downloaded from here, it may be a broken:">>

(* ------------------------------ results ------------------------------- *)

\* what a call did: the file system after it, its log, output and outcome
Result(f, d, log, out, exc, ret) ==
  [fs |-> f, dirs |-> d, log |-> log, out |-> out, exc |-> exc, ret |-> ret,
   jtrace |-> <<>>]

(* ---------------------------- read_dlauth ----------------------------- *)

ReadDlauth(f) ==
  IF ~IsFile(f, CredPath)
  THEN [ret |-> None, out |-> <<Msg(NeedSetupMsg)>>]
  ELSE LET data == f[CredPath].data
           j == JsonLoads(data)
       IN IF j.ok /\ j.isDict /\ j.field = "key"
          THEN [ret |-> j.value, out |-> <<>>]
          ELSE IF ~Decodable(data)
          THEN [ret |-> None, out |-> <<Msg(UnreadableMsg)>>]
          ELSE IF Contains(data, Html)
          THEN [ret |-> None, out |-> <<Msg(LooksHtmlMsg)>>]
          ELSE [ret |-> None, out |-> <<>>]

(* ------------------------- raise_for_status --------------------------- *)

Statuses == {200, 304, 404}

RaiseForStatus_never(status) == FALSE

\* requests.Response.raise_for_status: raises HTTPError for 4xx and 5xx
RaiseForStatus(status) == 400 <= status /\ status < 600

HTTPError == Exc("HTTPError", <<>>)

(* ----------------------- s2s_login, c3s_login ------------------------- *)

\* the two validation logins differ in what they print
Login(status, body, agreed, echo) ==
  LET log == <<"getpass", "POST login">>
  IN IF RaiseForStatus(status)
     THEN [log |-> log, out |-> <<>>, exc |-> HTTPError, ret |-> None]
     ELSE IF ~Decodable(body)
     THEN [log |-> log, out |-> <<>>, exc |-> Exc("UnicodeDecodeError", <<>>),
           ret |-> None]
     ELSE IF ~Contains(body, Phrase)
     THEN [log |-> log,
           out |-> IF echo THEN <<Msg(IncorrectUserMsg), Msg("<response body>")>>
                   ELSE <<Msg(IncorrectUserMsg)>>,
           exc |-> NoExc, ret |-> None]
     ELSE [log |-> log, out |-> <<Msg(agreed)>>, exc |-> NoExc, ret |-> None]

S2sLogin(status, body) == Login(status, body, AgreedMsg, TRUE)

C3sLogin(status, body) == Login(status, body, AgreedMsg, FALSE)

(* ---------------------------- setup_dlauth ---------------------------- *)

\* the else branch: the credential file is already there
SetupExisting(f, d) ==
  LET rd == ReadDlauth(f)
  IN Result(f, d, <<"read_dlauth">>, <<Msg(AlreadyMsg)>> \o rd.out, NoExc, rd.ret)

GenkeyRefused_never(gbody) == FALSE

\* the test that decides whether the key response is written
GenkeyRefused(gbody) == Contains(gbody, Html)

\* the if branch: no credential file yet
SetupFirst(f, d, lstatus, lbody, gstatus, gbody) ==
  LET log1 == <<"getpass", "POST login">>
      log2 == Append(log1, "GET genkey")
  IN IF RaiseForStatus(lstatus) THEN Result(f, d, log1, <<>>, HTTPError, None)
     ELSE IF RaiseForStatus(gstatus) THEN Result(f, d, log2, <<>>, HTTPError, None)
     ELSE IF ~Decodable(gbody)
     THEN Result(f, d, log2, <<>>, Exc("UnicodeDecodeError", <<>>), None)
     ELSE IF GenkeyRefused(gbody)
     THEN Result(f, d, log2, <<Msg(IncorrectSetupMsg)>>, NoExc, None)
     ELSE Result([f EXCEPT ![CredPath] = File(TRUE, gbody)], d,
                 Append(log2, "write cred"), <<>>, NoExc, None)

SetupDlauth_always(f, d, lstatus, lbody, gstatus, gbody) ==
  SetupFirst(f, d, lstatus, lbody, gstatus, gbody)

SetupDlauth(f, d, lstatus, lbody, gstatus, gbody) ==
  IF ~IsFile(f, CredPath)
  THEN SetupFirst(f, d, lstatus, lbody, gstatus, gbody)
  ELSE SetupExisting(f, d)

(* --------------------------- evaluate_url ----------------------------- *)

\* keyword arguments: a set of <<name, value>> pairs, one per name
Keys(kw) == {p[1] : p \in kw}

Get(kw, n) == (CHOOSE p \in kw : p[1] = n)[2]

Lit(t) == [ref |-> FALSE, text |-> t]

Ref(n) == [ref |-> TRUE, text |-> n]

\* names the f-string can see besides the keyword arguments
HelperNames ==
  {"url", "ensemblemean", "kwargs", "seasonal_target",
   "seasonal_target_length_monthly", "seasonal_target_length", "threeletters"}

\* eval of the template as an f-string: NameError when a name is unbound
EvaluateUrl(template, kw) ==
  LET bound(i) == ~template[i].ref \/ template[i].text \in Keys(kw) \cup HelperNames
      val(i) == IF ~template[i].ref THEN template[i].text
                ELSE IF template[i].text \in Keys(kw) THEN Get(kw, template[i].text)
                ELSE "<object>"
  IN IF \A i \in 1..Len(template) : bound(i)
     THEN [ok |-> TRUE, url |-> [i \in 1..Len(template) |-> val(i)]]
     ELSE [ok |-> FALSE, url |-> <<>>]

(* -------------------------- simple_download --------------------------- *)

NextJ_late(j) == IF j > BarWidth THEN 0 ELSE j

\* line 179: the fill counter wraps to zero
NextJ(j) == IF j >= BarWidth THEN 0 ELSE j

\* line 178: the bar of a progress line
Bar(j) == Rep("*", j) \o Rep(" ", BarWidth - j)

SizeOf(chunk) == BytesOverhead + Len(chunk)

OpenWb_append(f, p) == [f EXCEPT ![p] = File(TRUE, @.data)]

\* path.open("wb"): creates the file or truncates it
OpenWb(f, p) == [f EXCEPT ![p] = File(TRUE, <<>>)]

AuthOk_any(token) == TRUE

\* line 162: assert dlauthid is not None
AuthOk(token) == token # None

\* the chunk loop from chunk i on, st = [j, total, data, out, jtrace]
RECURSIVE Stream(_, _, _, _)
Stream(chunks, i, verbose, st) ==
  IF i > Len(chunks) THEN st
  ELSE LET j1 == st.j + 1
           total1 == st.total + SizeOf(chunks[i])
       IN Stream(chunks, i + 1, verbose,
                 [j |-> NextJ(j1),
                  total |-> total1,
                  data |-> st.data \o chunks[i],
                  out |-> IF verbose
                          THEN Append(st.out, Progress(Bar(j1), total1 \div KBDiv))
                          ELSE st.out,
                  jtrace |-> Append(st.jtrace, st.j)])

SimpleDownload(f, d, dest, verbose, use_dlauth, status, chunks) ==
  LET rd == ReadDlauth(f)
      out0 == IF verbose THEN <<Msg("URL: {}"), Msg("")>> ELSE <<>>
      out1 == IF use_dlauth THEN out0 \o rd.out ELSE out0
      log1 == IF use_dlauth THEN <<"read_dlauth">> ELSE <<>>
      log2 == Append(log1, "POST url")
  IN IF use_dlauth /\ ~AuthOk(rd.ret)
     THEN Result(f, d, log1, out1, Exc("AssertionError", NoCookieMsg), None)
     ELSE IF RaiseForStatus(status)
     THEN Result(f, d, log2, out1, HTTPError, None)
     ELSE LET d2 == d \cup {Parent(dest)}
              out2 == IF verbose
                      THEN Append(out1, Progress(Rep(" ", BarWidth), 0))
                      ELSE out1
              f2 == OpenWb(f, dest)
              s == Stream(chunks, 1, verbose,
                          [j |-> 0, total |-> 0, data |-> <<>>, out |-> <<>>,
                           jtrace |-> <<>>])
              f3 == [f2 EXCEPT ![dest].data = @ \o s.data]
              out3 == IF verbose
                      THEN Append(out2 \o s.out,
                                  Progress(Rep("*", BarWidth), s.total \div KBDiv))
                      ELSE out2
              log3 == log2 \o <<"mkdir", "open dest">> \o Rep("write", Len(chunks))
          IN IF ~IsFile(f3, dest)
             THEN [Result(f3, d2, log3, out3,
                          Exc("AssertionError", <<"failed to write file">>), None)
                   EXCEPT !.jtrace = s.jtrace]
             ELSE [Result(f3, d2, log3, out3, NoExc, dest)
                   EXCEPT !.jtrace = s.jtrace]

(* ------------------------------ download ------------------------------ *)

ValidFormats == {"cptv10.tsv", "data.nc"}

CheckFiletype_keyerror(kw) ==
  IF "filetype" \notin Keys(kw) THEN Exc("KeyError", <<"'filetype'">>)
  ELSE IF Get(kw, "filetype") \notin ValidFormats
  THEN Exc("AssertionError", InvalidFormatMsg)
  ELSE NoExc

\* lines 205-209: the exception the filetype checks raise, NoExc when none
CheckFiletype(kw) ==
  IF "filetype" \notin Keys(kw) THEN Exc("PyCPT_ERROR", MissingFiletypeMsg)
  ELSE IF Get(kw, "filetype") \notin ValidFormats
  THEN Exc("AssertionError", InvalidFormatMsg)
  ELSE NoExc

Download(f, d, template, dest, verbose, use_dlauth, kw, status, chunks, parseOk) ==
  LET chk == CheckFiletype(kw)
      ev == EvaluateUrl(template, kw)
      sd == SimpleDownload(f, d, dest, verbose, use_dlauth, status, chunks)
      parser == IF Get(kw, "filetype") = "cptv10.tsv"
                THEN "open_cptdataset" ELSE "open_dataset"
      sdlog == <<"evaluate_url">> \o sd.log
  IN IF chk # NoExc THEN Result(f, d, <<>>, <<>>, chk, None)
     ELSE IF ~ev.ok
     THEN Result(f, d, <<"evaluate_url">>, <<>>, Exc("PyCPT_ERROR", TemplateMsg), None)
     ELSE IF sd.exc # NoExc THEN [sd EXCEPT !.log = sdlog]
     ELSE IF ~parseOk
     THEN [sd EXCEPT !.log = Append(sdlog, parser),
                     !.exc = Exc("PyCPT_ERROR", BrokenMsg), !.ret = None]
     ELSE [sd EXCEPT !.log = Append(sdlog, parser), !.ret = "Dataset"]

(* ------------------------- inputs of the calls ------------------------ *)

Chunks == {<<>>, <<"x">>, <<"y">>}

ShortSeqs(n) == UNION {[1..k -> Chunks] : k \in 0..n}

LongSeqs == {Rep(<<"x">>, n) : n \in (BarWidth - 1)..MaxLong}

\* bodies a data endpoint streams to simple_download
ChunkSeqs == ShortSeqs(MaxChunks) \cup LongSeqs

LoginBodies == {<<Phrase>>, <<Html>>, <<BadByte>>}

KeyRecord(field, value) == <<"{", field, ":", value, "}">>

GenkeyBodies ==
  {KeyRecord("\"key\"", "\"k1\""), KeyRecord("\"key\"", "\"k2\""),
   KeyRecord("\"token\"", "\"k1\""), <<Html>>, <<>>, <<BadByte>>}

Templates ==
  {<<Lit("http://x/data")>>, <<Lit("http://x/"), Ref("first_year"), Lit(".tsv")>>}

KwargsSets ==
  {ft \cup fy :
     ft \in {{}} \cup {{<<"filetype", t>>} : t \in ValidFormats \cup {"bogus"}},
     fy \in {{}, {<<"first_year", "1982">>}}}

NoArgs ==
  [dest |-> "", verbose |-> FALSE, use_dlauth |-> FALSE, kw |-> {},
   template |-> <<>>, status |-> 0, lbody |-> <<>>, gstatus |-> 0,
   gbody |-> <<>>, chunks |-> <<>>, parseOk |-> FALSE]

(* ------------------------------ actions ------------------------------- *)

Idle ==
  [op |-> "idle", args |-> NoArgs, pre |-> [p \in Paths |-> Absent],
   preDirs |-> {"~"}, log |-> <<>>, out |-> <<>>, exc |-> NoExc,
   ret |-> None, jtrace |-> <<>>]

\* the caller makes the call op(args), which does res
Done(op, args, res) ==
  /\ fs' = res.fs
  /\ dirs' = res.dirs
  /\ last' = [op |-> op, args |-> args, pre |-> fs, preDirs |-> dirs,
              log |-> res.log, out |-> res.out, exc |-> res.exc,
              ret |-> res.ret, jtrace |-> res.jtrace]

Init ==
  /\ fs = [p \in Paths |-> Absent]
  /\ dirs = {"~"}
  /\ last = Idle

\* the caller has looked at the outcome of the call and goes on
Return ==
  /\ last # Idle
  /\ last' = Idle
  /\ UNCHANGED <<fs, dirs>>

ReadDlauthCall ==
  LET rd == ReadDlauth(fs)
  IN last = Idle /\ Done("read_dlauth", NoArgs, Result(fs, dirs, <<"read_dlauth">>, rd.out, NoExc, rd.ret))

LoginCall(op, status, body) ==
  LET r == IF op = "s2s_login" THEN S2sLogin(status, body) ELSE C3sLogin(status, body)
  IN Done(op, [NoArgs EXCEPT !.status = status, !.lbody = body],
          Result(fs, dirs, r.log, r.out, r.exc, r.ret))

S2sLoginCall ==
  /\ last = Idle
  /\ \E status \in Statuses, body \in LoginBodies :
    /\ RaiseForStatus(status) => body = <<Html>>
    /\ LoginCall("s2s_login", status, body)

C3sLoginCall ==
  /\ last = Idle
  /\ \E status \in Statuses, body \in LoginBodies :
    /\ RaiseForStatus(status) => body = <<Html>>
    /\ LoginCall("c3s_login", status, body)

SetupDlauthCall ==
  /\ last = Idle
  /\ \E lstatus \in Statuses, lbody \in LoginBodies,
     gstatus \in Statuses, gbody \in GenkeyBodies :
    \* responses of requests that are never issued are not inputs
    /\ IsFile(fs, CredPath) =>
         lstatus = 200 /\ lbody = <<Html>> /\ gstatus = 200 /\ gbody = <<>>
    /\ RaiseForStatus(lstatus) => lbody = <<Html>> /\ gstatus = 200 /\ gbody = <<>>
    /\ RaiseForStatus(gstatus) => gbody = <<>>
    /\ Done("setup_dlauth",
            [NoArgs EXCEPT !.status = lstatus, !.lbody = lbody,
                           !.gstatus = gstatus, !.gbody = gbody],
            SetupDlauth(fs, dirs, lstatus, lbody, gstatus, gbody))

SimpleDownloadCall ==
  /\ last = Idle
  /\ \E dest \in Paths, verbose \in BOOLEAN, use_dlauth \in BOOLEAN,
     status \in Statuses, chunks \in ChunkSeqs :
    /\ (use_dlauth /\ ReadDlauth(fs).ret = None) => status = 200
    /\ (RaiseForStatus(status) \/ (use_dlauth /\ ReadDlauth(fs).ret = None)) =>
         chunks = <<>>
    /\ Done("simple_download",
            [NoArgs EXCEPT !.dest = dest, !.verbose = verbose,
                           !.use_dlauth = use_dlauth, !.status = status,
                           !.chunks = chunks],
            SimpleDownload(fs, dirs, dest, verbose, use_dlauth, status, chunks))

DownloadCall ==
  /\ last = Idle
  /\ \E template \in Templates, dest \in Paths, verbose \in BOOLEAN,
     use_dlauth \in BOOLEAN, kw \in KwargsSets, status \in Statuses,
     chunks \in ShortSeqs(1), parseOk \in BOOLEAN :
    LET noRequest == \/ "filetype" \notin Keys(kw)
                     \/ Get(kw, "filetype") \notin ValidFormats
                     \/ ~EvaluateUrl(template, kw).ok
                     \/ (use_dlauth /\ ReadDlauth(fs).ret = None)
    IN /\ noRequest => status = 200
       /\ (noRequest \/ RaiseForStatus(status)) => chunks = <<>> /\ ~parseOk
       /\ Done("download",
               [NoArgs EXCEPT !.template = template, !.dest = dest,
                              !.verbose = verbose, !.use_dlauth = use_dlauth,
                              !.kw = kw, !.status = status, !.chunks = chunks,
                              !.parseOk = parseOk],
               Download(fs, dirs, template, dest, verbose, use_dlauth, kw,
                        status, chunks, parseOk))

Next ==
  \/ ReadDlauthCall
  \/ S2sLoginCall
  \/ C3sLoginCall
  \/ SetupDlauthCall
  \/ SimpleDownloadCall
  \/ DownloadCall
  \/ Return

Spec == Init /\ [][Next]_vars

(* ======================== properties of the calls ===================== *)

NetEvents == {"POST login", "GET genkey", "POST url"}

Logged(ev) == \E i \in 1..Len(last.log) : last.log[i] = ev

NoNetwork == \A i \in 1..Len(last.log) : last.log[i] \notin NetEvents

Printed(text) == \E i \in 1..Len(last.out) : last.out[i] = Msg(text)

\* the concatenation of a sequence of chunks, in order
RECURSIVE Flatten(_)
Flatten(cs) == IF cs = <<>> THEN <<>> ELSE Head(cs) \o Flatten(Tail(cs))

DestOf == last.args.dest

HasFiletype == "filetype" \in Keys(last.args.kw)

(* C1: a download call whose 'filetype' keyword is present but is neither
   'cptv10.tsv' nor 'data.nc' fails with PyCPT_ERROR, before any network
   request and without creating or modifying the file at dest. *)
C1_InvalidFiletypeIsDomainError ==
  (last.op = "download" /\ HasFiletype
     /\ Get(last.args.kw, "filetype") \notin {"cptv10.tsv", "data.nc"}) =>
    /\ last.exc.type = "PyCPT_ERROR"
    /\ NoNetwork
    /\ fs[DestOf] = last.pre[DestOf]

(* C2: a download call without a 'filetype' keyword fails with PyCPT_ERROR
   whose message names 'filetype', before the template is evaluated, before
   the credential file is read and before any network request. *)
C2_MissingFiletype ==
  (last.op = "download" /\ ~HasFiletype) =>
    /\ last.exc.type = "PyCPT_ERROR"
    /\ Contains(last.exc.msg, "'filetype'")
    /\ ~Logged("evaluate_url")
    /\ ~Logged("read_dlauth")
    /\ NoNetwork
    /\ fs = last.pre

C2_Witness ==
  /\ last.op = "download" /\ ~HasFiletype
  /\ last.args.use_dlauth /\ last.args.dest = CredPath
  /\ Len(last.args.template) > 1 /\ last.args.kw = {}
  /\ last.exc.type = "PyCPT_ERROR"

(* C3: simple_download with use_dlauth true, when read_dlauth yields no
   token, fails with an assertion before the HTTP request is issued, and
   neither the destination file nor its parent directories are created or
   modified. *)
C3_NoTokenFailsBeforeRequest ==
  (last.op = "simple_download" /\ last.args.use_dlauth
     /\ ReadDlauth(last.pre).ret = None) =>
    /\ last.exc.type = "AssertionError"
    /\ ~Logged("POST url")
    /\ fs = last.pre
    /\ dirs = last.preDirs

C3_Witness ==
  /\ last.op = "simple_download" /\ last.args.use_dlauth
  /\ last.pre[CredPath].exists
  /\ last.args.dest = DestPath /\ ~last.pre[DestPath].exists
  /\ last.exc.type = "AssertionError"

Is2xx(status) == 200 <= status /\ status < 300

SomeChunkNonEmpty == \E i \in 1..Len(last.args.chunks) : last.args.chunks[i] # <<>>

(* C4, as stated: after simple_download returns from a 2xx response the
   destination file holds exactly the concatenation of the chunks in arrival
   order, exists and is non-empty. *)
C4_Original ==
  (last.op = "simple_download" /\ Is2xx(last.args.status) /\ Logged("POST url")) =>
    /\ last.exc = NoExc
    /\ fs[DestOf].exists
    /\ fs[DestOf].data = Flatten(last.args.chunks)
    /\ fs[DestOf].data # <<>>

(* C4, amended: after simple_download returns from a 2xx response the
   destination file exists and holds exactly the concatenation of the chunks
   in arrival order; it is non-empty exactly when some chunk is non-empty. *)
C4_ContentIsConcatenation ==
  (last.op = "simple_download" /\ Is2xx(last.args.status) /\ Logged("POST url")) =>
    /\ last.exc = NoExc
    /\ last.ret = DestOf
    /\ fs[DestOf].exists
    /\ fs[DestOf].data = Flatten(last.args.chunks)
    /\ (fs[DestOf].data # <<>>) <=> SomeChunkNonEmpty

C4_Witness ==
  /\ last.op = "simple_download" /\ Is2xx(last.args.status)
  /\ last.args.verbose
  /\ last.args.chunks = <<<<"x">>, <<"y">>>>
  /\ last.pre[DestOf].exists /\ last.pre[DestOf].data = <<"y", "x">>
  /\ fs[DestOf].data = <<"x", "y">>

(* C5, as stated: when the server answers simple_download's request with a
   non-2xx status the call raises the transport error and the file at dest is
   neither created nor changed. *)
C5_Original ==
  (last.op = "simple_download" /\ Logged("POST url") /\ ~Is2xx(last.args.status)) =>
    /\ last.exc.type = "HTTPError"
    /\ fs[DestOf] = last.pre[DestOf]

(* C5, amended: when the server answers simple_download's request with a 4xx
   or 5xx status the call raises the transport error and neither the file at
   dest nor the directories are created or changed. *)
C5_ErrorStatusNotWritten ==
  (last.op = "simple_download" /\ Logged("POST url")
     /\ 400 <= last.args.status /\ last.args.status < 600) =>
    /\ last.exc.type = "HTTPError"
    /\ fs = last.pre
    /\ dirs = last.preDirs
    /\ ~Logged("open dest")

C5_Witness ==
  /\ last.op = "simple_download" /\ last.args.status = 404
  /\ last.pre[DestOf].exists /\ last.pre[DestOf].data # <<>>
  /\ last.exc.type = "HTTPError"
  /\ fs[DestOf] = last.pre[DestOf]

FirstSetup == last.op = "setup_dlauth" /\ ~last.pre[CredPath].exists

(* C6, as stated: for setup_dlauth started with no credential file, a login
   body with the success phrase gives a non-empty credential file; a login
   body without it gives no file and a reported failure. *)
C6_Original ==
  FirstSetup =>
    /\ Contains(last.args.lbody, Phrase) =>
         (fs[CredPath].exists /\ fs[CredPath].data # <<>>)
    /\ ~Contains(last.args.lbody, Phrase) =>
         (~fs[CredPath].exists /\ (Printed(IncorrectSetupMsg) \/ last.exc # NoExc))

(* C6, amended: for setup_dlauth started with no credential file, whatever
   the login body says: if both responses carry no error status and the
   key-generation body decodes and does not contain 'html', that body is
   written verbatim as the credential file; if it contains 'html', no file
   is written and 'Incorrect Username or Password' is reported; if a request
   fails or the body does not decode, an exception escapes and no file is
   written. *)
C6_KeyResponseDecides ==
  FirstSetup =>
    IF last.args.status >= 400 \/ last.args.gstatus >= 400
    THEN last.exc.type = "HTTPError" /\ ~fs[CredPath].exists
    ELSE IF Contains(last.args.gbody, BadByte)
    THEN last.exc.type = "UnicodeDecodeError" /\ ~fs[CredPath].exists
    ELSE IF Contains(last.args.gbody, Html)
    THEN /\ ~fs[CredPath].exists
         /\ Printed(IncorrectSetupMsg)
         /\ last.exc = NoExc /\ last.ret = None
    ELSE /\ fs[CredPath] = File(TRUE, last.args.gbody)
         /\ ~Printed(IncorrectSetupMsg)
         /\ last.exc = NoExc

C6_Witness ==
  /\ FirstSetup
  /\ ~Contains(last.args.lbody, Phrase)
  /\ fs[CredPath].exists /\ fs[CredPath].data # <<>>

SetupOnExisting == last.op = "setup_dlauth" /\ last.pre[CredPath].exists

\* setup_dlauth on an existing credential file only reads it
SetupExistingReadsOnly ==
  SetupOnExisting =>
    /\ ~Logged("getpass")
    /\ NoNetwork
    /\ fs = last.pre
    /\ last.exc = NoExc
    /\ last.ret = ReadDlauth(last.pre).ret

(* C7, as stated: setup_dlauth on an existing credential file prompts for
   nothing, issues no request, leaves the file alone and returns what
   read_dlauth returns; and no call of the module changes an existing
   credential file. *)
C7_Original ==
  /\ []SetupExistingReadsOnly
  /\ [][IsFile(fs, CredPath) => fs'[CredPath] = fs[CredPath]]_vars

(* C7, amended: setup_dlauth on an existing credential file prompts for
   nothing, issues no request, leaves the file alone and returns what
   read_dlauth returns; and no call of the module changes an existing
   credential file, except a simple_download or download whose dest is the
   credential file itself. *)
C7_WriteOnce ==
  /\ []SetupExistingReadsOnly
  /\ [][(IsFile(fs, CredPath) /\ last'.args.dest # CredPath) =>
          fs'[CredPath] = fs[CredPath]]_vars

C7_Witness ==
  /\ SetupOnExisting
  /\ last.ret = "k1"
  /\ Printed(AlreadyMsg)
  /\ fs[CredPath].data = KeyRecord("\"key\"", "\"k1\"")

(* C8: read_dlauth lets no exception escape; whenever it returns None it has
   printed a diagnostic message; it returns a value other than None only when
   the file parses as a record with a 'key' field, and then that value. *)
C8_ReadDlauthDiagnoses ==
  last.op = "read_dlauth" =>
    /\ last.exc = NoExc
    /\ last.ret = None => last.out # <<>>
    /\ last.ret # None =>
         \E v \in JsonStrings :
           /\ last.pre[CredPath] = File(TRUE, KeyRecord("\"key\"", v))
           /\ last.ret = JsonValue(v)

(* C9: a first-time setup_dlauth that writes the credential file writes the
   key-generation response verbatim and returns the key that read_dlauth
   returns right afterwards. *)
C9_SetupReturnsKey ==
  (FirstSetup /\ fs[CredPath].exists) =>
    /\ fs[CredPath].data = last.args.gbody
    /\ last.ret = ReadDlauth(fs).ret

\* the progress line printed for the k-th of n chunks
LoopLine(k, n) == last.out[Len(last.out) - n - 1 + k]

FillOf(k) == ((k - 1) % 25) + 1

(* C10: in simple_download with verbose true, the progress line of the k-th
   chunk shows a bar of exactly 25 characters, FillOf(k) '*' followed by
   spaces, with 1 <= FillOf(k) <= 25; the fill counter is between 0 and 24 at
   the start of every iteration and is zero exactly after every 25th chunk. *)
C10_ProgressBar ==
  (last.op = "simple_download" /\ last.args.verbose /\ last.exc = NoExc) =>
    LET n == Len(last.args.chunks)
    IN /\ Len(last.jtrace) = n
       /\ \A k \in 1..n :
            /\ LoopLine(k, n).kind = "progress"
            /\ Len(LoopLine(k, n).bar) = 25
            /\ \A p \in 1..25 :
                 LoopLine(k, n).bar[p] = IF p <= FillOf(k) THEN "*" ELSE " "
            /\ last.jtrace[k] \in 0..24
            /\ last.jtrace[k] = (k - 1) % 25
            /\ (last.jtrace[k] = 0) <=> (k = 1 \/ (k - 1) % 25 = 0)

C10_Witness ==
  /\ last.op = "simple_download" /\ last.args.verbose /\ last.exc = NoExc
  /\ Len(last.args.chunks) >= 26
  /\ LoopLine(26, Len(last.args.chunks)).bar = Rep("*", 1) \o Rep(" ", 24)

====
